---- MODULE Spec2Model ----
(***************************************************************************)
(* Attachment Style Quiz API (src/main.py).                                *)
(*                                                                         *)
(* submit_quiz is modelled as a per-request state machine: the request is  *)
(* received, compute_scores walks the answers one by one, classify_style   *)
(* labels the two means, the QuizResult is handed to create_document, and  *)
(* the response is returned.  compute_scores and classify_style are also   *)
(* operators, so that they can be applied to inputs drawn from bounded     *)
(* sets.                                                                   *)
(*                                                                         *)
(* Python floats are modelled as exact rationals [num, den] in lowest      *)
(* terms.  For the scores and the short answer lists used here (integers   *)
(* and the one fraction 3.996) the float results of sum(...) / n compare   *)
(* with 4.0 and round to two decimals exactly as the rationals do.         *)
(***************************************************************************)
EXTENDS Integers, Sequences, FiniteSets, TLC

\* ---------------------------------------------------------------- bounds
\* longest answer list of a submission in the one-request specification
MaxAnswers == 3
\* longest answer list of a submission in the two-request specification
MaxConcAnswers == 2
\* longest answer list of a submission in the specification with fairness
MaxFairAnswers == 2

\* ------------------------------------------------------------- rationals
RECURSIVE GCD(_, _)
GCD(a, b) == IF b = 0 THEN a ELSE GCD(b, a % b)

\* the rational n/d (n >= 0, d > 0) in lowest terms
Rat(n, d) == LET g == GCD(n, d) IN [num |-> n \div g, den |-> d \div g]

RatAdd(a, b) == Rat(a.num * b.den + b.num * a.den, a.den * b.den)

RatDiv(a, n) == Rat(a.num, a.den * n)

RatLess(a, b) == a.num * b.den < b.num * a.den

Max(a, b) == IF a >= b THEN a ELSE b

\* ----------------------------------------------------------- static data
\* QUESTIONS (the "text" field plays no part in scoring and is left out)
QUESTIONS ==
    << [id |-> "A1", factor |-> "avoidance"],
       [id |-> "A2", factor |-> "avoidance"],
       [id |-> "A3", factor |-> "avoidance"],
       [id |-> "A4", factor |-> "avoidance"],
       [id |-> "A5", factor |-> "avoidance"],
       [id |-> "A6", factor |-> "avoidance"],
       [id |-> "X1", factor |-> "anxiety"],
       [id |-> "X2", factor |-> "anxiety"],
       [id |-> "X3", factor |-> "anxiety"],
       [id |-> "X4", factor |-> "anxiety"],
       [id |-> "X5", factor |-> "anxiety"],
       [id |-> "X6", factor |-> "anxiety"] >>

\* qmap = {q["id"]: q for q in QUESTIONS}: the ids that are keys of the map
qmap_keys(qs) == { qs[k].id : k \in 1..Len(qs) }

\* qmap[id]["factor"]; for a repeated id the dict keeps the last entry
qmap_factor(qs, id) ==
    LET ks == { k \in 1..Len(qs) : qs[k].id = id }
        last == CHOOSE k \in ks : \A j \in ks : j <= k
    IN  qs[last].factor

\* ----------------------------------------------------------- classifier
\* thr = 4.0
thr == Rat(4, 1)

\* the en dash of the source's "~5-10%" is written as a hyphen
classify_style_le(anxiety, avoidance) ==
    IF ~RatLess(thr, anxiety) /\ ~RatLess(thr, avoidance) THEN
        [style |-> "Secure",
         prevalence |-> "~50% of adults in community samples",
         recs |-> << "Maintain open communication and healthy boundaries.",
                     "Continue investing in supportive relationships.",
                     "Practice self-reflection to keep patterns secure under stress." >>]
    ELSE IF RatLess(thr, anxiety) /\ ~RatLess(thr, avoidance) THEN
        [style |-> "Anxious (Preoccupied)",
         prevalence |-> "~20%",
         recs |-> << "Build self-soothing routines (breathing, grounding).",
                     "Communicate needs clearly without protest behaviors.",
                     "Seek consistent, responsive partners or therapists." >>]
    ELSE IF ~RatLess(thr, anxiety) /\ RatLess(thr, avoidance) THEN
        [style |-> "Avoidant (Dismissive)",
         prevalence |-> "~25%",
         recs |-> << "Practice expressing needs and accepting help.",
                     "Experiment with gradual intimacy and repair attempts.",
                     "Reflect on autonomy vs. connection to find balance." >>]
    ELSE
        [style |-> "Fearful-Avoidant (Disorganized)",
         prevalence |-> "~5-10%",
         recs |-> << "Work on trauma-informed stabilization with a professional.",
                     "Develop consistent routines for safety and connection.",
                     "Use titrated exposure to intimacy with trusted others." >>]

classify_style_swapped(anxiety, avoidance) ==
    IF RatLess(anxiety, thr) /\ RatLess(avoidance, thr) THEN
        [style |-> "Secure",
         prevalence |-> "~50% of adults in community samples",
         recs |-> << "Maintain open communication and healthy boundaries.",
                     "Continue investing in supportive relationships.",
                     "Practice self-reflection to keep patterns secure under stress." >>]
    ELSE IF RatLess(anxiety, thr) /\ ~RatLess(avoidance, thr) THEN
        [style |-> "Anxious (Preoccupied)",
         prevalence |-> "~20%",
         recs |-> << "Build self-soothing routines (breathing, grounding).",
                     "Communicate needs clearly without protest behaviors.",
                     "Seek consistent, responsive partners or therapists." >>]
    ELSE IF ~RatLess(anxiety, thr) /\ RatLess(avoidance, thr) THEN
        [style |-> "Avoidant (Dismissive)",
         prevalence |-> "~25%",
         recs |-> << "Practice expressing needs and accepting help.",
                     "Experiment with gradual intimacy and repair attempts.",
                     "Reflect on autonomy vs. connection to find balance." >>]
    ELSE
        [style |-> "Fearful-Avoidant (Disorganized)",
         prevalence |-> "~5-10%",
         recs |-> << "Work on trauma-informed stabilization with a professional.",
                     "Develop consistent routines for safety and connection.",
                     "Use titrated exposure to intimacy with trusted others." >>]

classify_style(anxiety, avoidance) ==
    IF RatLess(anxiety, thr) /\ RatLess(avoidance, thr) THEN
        [style |-> "Secure",
         prevalence |-> "~50% of adults in community samples",
         recs |-> << "Maintain open communication and healthy boundaries.",
                     "Continue investing in supportive relationships.",
                     "Practice self-reflection to keep patterns secure under stress." >>]
    ELSE IF ~RatLess(anxiety, thr) /\ RatLess(avoidance, thr) THEN
        [style |-> "Anxious (Preoccupied)",
         prevalence |-> "~20%",
         recs |-> << "Build self-soothing routines (breathing, grounding).",
                     "Communicate needs clearly without protest behaviors.",
                     "Seek consistent, responsive partners or therapists." >>]
    ELSE IF RatLess(anxiety, thr) /\ ~RatLess(avoidance, thr) THEN
        [style |-> "Avoidant (Dismissive)",
         prevalence |-> "~25%",
         recs |-> << "Practice expressing needs and accepting help.",
                     "Experiment with gradual intimacy and repair attempts.",
                     "Reflect on autonomy vs. connection to find balance." >>]
    ELSE
        [style |-> "Fearful-Avoidant (Disorganized)",
         prevalence |-> "~5-10%",
         recs |-> << "Work on trauma-informed stabilization with a professional.",
                     "Develop consistent routines for safety and connection.",
                     "Use titrated exposure to intimacy with trusted others." >>]

\* --------------------------------------------------------------- scoring
RECURSIVE sum(_)
\* sum(xs): Python adds left to right starting from 0
sum(xs) == IF xs = << >> THEN Rat(0, 1)
           ELSE RatAdd(sum(SubSeq(xs, 1, Len(xs) - 1)), xs[Len(xs)])

\* a mean that divides by the six questions the bank has per factor
mean_bank(xs) == RatDiv(sum(xs), 6)

RECURSIVE mean_running(_)
\* a mean kept as a running average of the mean so far and the next score
mean_running(xs) ==
    IF xs = << >> THEN Rat(0, 1)
    ELSE IF Len(xs) = 1 THEN xs[1]
    ELSE RatDiv(RatAdd(mean_running(SubSeq(xs, 1, Len(xs) - 1)), xs[Len(xs)]), 2)

\* sum(scores) / max(1, len(scores))
mean(xs) == RatDiv(sum(xs), Max(1, Len(xs)))

\* factor_scores = {"anxiety": [], "avoidance": []}
EmptyFactorScores == [anxiety |-> << >>, avoidance |-> << >>]

\* loop body that silently skips an answer whose question id is unknown
ScoreAnswer_skip(fs, ans, qs) ==
    IF ans.question_id \notin qmap_keys(qs)
    THEN [raised |-> FALSE, id |-> "", fs |-> fs]
    ELSE LET factor == qmap_factor(qs, ans.question_id)
         IN  [raised |-> FALSE, id |-> "",
              fs |-> [fs EXCEPT ![factor] = Append(@, ans.score)]]

\* loop body that rejects a score outside the published scale [1, 7]
ScoreAnswer_validated(fs, ans, qs) ==
    IF ans.question_id \notin qmap_keys(qs)
           \/ RatLess(ans.score, Rat(1, 1)) \/ RatLess(Rat(7, 1), ans.score)
    THEN [raised |-> TRUE, id |-> ans.question_id, fs |-> fs]
    ELSE LET factor == qmap_factor(qs, ans.question_id)
         IN  [raised |-> FALSE, id |-> "",
              fs |-> [fs EXCEPT ![factor] = Append(@, ans.score)]]

\* the body of "for ans in answers": raise on an unknown id, else append
\* the score to the list of the question's factor
ScoreAnswer(fs, ans, qs) ==
    IF ans.question_id \notin qmap_keys(qs)
    THEN [raised |-> TRUE, id |-> ans.question_id, fs |-> fs]
    ELSE LET factor == qmap_factor(qs, ans.question_id)
         IN  [raised |-> FALSE, id |-> "",
              fs |-> [fs EXCEPT ![factor] = Append(@, ans.score)]]

RECURSIVE ScoreLoop(_, _, _)
\* the whole loop over answers[k..], stopping at the first raise
ScoreLoop(fs, answers, qs) ==
    IF answers = << >> THEN [raised |-> FALSE, id |-> "", fs |-> fs]
    ELSE LET one == ScoreAnswer(fs, Head(answers), qs)
         IN  IF one.raised THEN one ELSE ScoreLoop(one.fs, Tail(answers), qs)

\* compute_scores(answers): either the raised HTTPException(400) with the
\* offending id, or the pair of means
compute_scores(answers, qs) ==
    LET done == ScoreLoop(EmptyFactorScores, answers, qs)
    IN  IF done.raised
        THEN [raised |-> TRUE, id |-> done.id,
              anxiety |-> Rat(0, 1), avoidance |-> Rat(0, 1)]
        ELSE [raised |-> FALSE, id |-> "",
              anxiety |-> mean(done.fs.anxiety),
              avoidance |-> mean(done.fs.avoidance)]

\* -------------------------------------------------------------- rounding
\* a round that truncates to two decimals
round2_trunc(x) == Rat((100 * x.num) \div x.den, 100)

\* round(x, 2): nearest multiple of 0.01, an exact tie going to the even
\* one (exact ties need a denominator that is a multiple of 8)
round2(x) ==
    LET q == (100 * x.num) \div x.den
        r == (100 * x.num) % x.den
        k == IF 2 * r < x.den THEN q
             ELSE IF 2 * r > x.den THEN q + 1
             ELSE IF q % 2 = 0 THEN q ELSE q + 1
    IN  Rat(k, 100)

\* ------------------------------------------------------------- requests
\* the requests in flight (each id is one POST /api/submit)
Reqs == {"r1", "r2"}

\* a local that has not been assigned yet
None == [none |-> TRUE]

\* QuizAnswer {question_id, score}: no validation of either field
QuizAnswer(ids, scs) == [question_id : ids, score : scs]

SeqsUpTo(S, n) == UNION { [1..k -> S] : k \in 0..n }

\* SubmitPayload {answers: List[QuizAnswer], meta: Dict = {}}
SubmitPayload(ids, scs, n, metas) ==
    [answers : SeqsUpTo(QuizAnswer(ids, scs), n), meta : metas]

\* meta dicts of the submissions: absent/empty, or one entry
Metas == { {}, {<<"source", "web">>} }

\* submissions of the one-request specification: a known avoidance id, a
\* known anxiety id and an unknown id; scores on the scale (4, 7), off the
\* scale (0, 99) and a fractional one (3.996)
SeqPayloads ==
    SubmitPayload({"A1", "X1", "Z9"},
                  {Rat(0, 1), Rat(4, 1), Rat(7, 1), Rat(99, 1), Rat(999, 250)},
                  MaxAnswers, Metas)

\* submissions of the two-request specification
ConcPayloads ==
    SubmitPayload({"A1", "X1", "Z9"}, {Rat(2, 1), Rat(6, 1)},
                  MaxConcAnswers, {{}})

\* submissions of the specification with fairness
FairPayloads ==
    SubmitPayload({"A1", "X1", "Z9"}, {Rat(0, 1), Rat(4, 1), Rat(7, 1)},
                  MaxFairAnswers, {{}})

\* inputs of the classifier on its own: around the threshold and far off
ClassifyInputs ==
    { Rat(0, 1), Rat(1, 1), Rat(3999, 1000), Rat(4, 1), Rat(4001, 1000),
      Rat(14, 3), Rat(7, 1), Rat(99, 1) }

VARIABLES
    pc,             \* where each request is in submit_quiz
    payload,        \* the parsed SubmitPayload of each request
    idx,            \* compute_scores: position of "for ans in answers"
    factor_scores,  \* compute_scores: the local dict, one per call frame
    scores,         \* submit_quiz: the locals anxiety, avoidance
    cls,            \* submit_quiz: the locals style, prevalence, recs
    result,         \* submit_quiz: the QuizResult built for the store
    response,       \* what the client of each request gets back
    storeCalls,     \* the create_document calls each request has made
    questions,      \* the module-level QUESTIONS list
    cin,            \* classifier on its own: the arguments
    cout            \* classifier on its own: the returned tuple

vars == << pc, payload, idx, factor_scores, scores, cls, result, response,
           storeCalls, questions, cin, cout >>

reqvars == << pc, payload, idx, factor_scores, scores, cls, result, response,
              storeCalls, questions >>

\* a call of compute_scores that shares its local dict with every other call
frame_shared(r) == "r1"

\* the call frame holding the locals of request r's compute_scores call
frame(r) == r

Idle ==
    /\ pc = [r \in Reqs |-> "idle"]
    /\ payload = [r \in Reqs |-> None]
    /\ idx = [r \in Reqs |-> 0]
    /\ factor_scores = [r \in Reqs |-> None]
    /\ scores = [r \in Reqs |-> None]
    /\ cls = [r \in Reqs |-> None]
    /\ result = [r \in Reqs |-> None]
    /\ response = [r \in Reqs |-> None]
    /\ storeCalls = [r \in Reqs |-> << >>]
    /\ questions = QUESTIONS

Init == Idle /\ cin = None /\ cout = None

\* POST /api/submit arrives and the body is parsed into a SubmitPayload,
\* one of the submissions P
Receive(r, P) ==
    /\ pc[r] = "idle"
    /\ pc' = [pc EXCEPT ![r] = "received"]
    /\ \E p \in P : payload' = [payload EXCEPT ![r] = p]
    /\ UNCHANGED << idx, factor_scores, scores, cls, result, response,
                    storeCalls, questions, cin, cout >>

\* compute_scores is entered: factor_scores and qmap are built
ScoreBegin(r) ==
    /\ pc[r] = "received"
    /\ pc' = [pc EXCEPT ![r] = "scoring"]
    /\ factor_scores' = [factor_scores EXCEPT ![frame(r)] = EmptyFactorScores]
    /\ idx' = [idx EXCEPT ![r] = 1]
    /\ UNCHANGED << payload, scores, cls, result, response, storeCalls,
                    questions, cin, cout >>

\* one iteration of "for ans in answers"; an unknown id raises
\* HTTPException(400), which ends submit_quiz with that error response
ScoreStep(r) ==
    /\ pc[r] = "scoring"
    /\ idx[r] <= Len(payload[r].answers)
    /\ LET one == ScoreAnswer(factor_scores[frame(r)],
                              payload[r].answers[idx[r]], questions)
       IN  IF one.raised
           THEN /\ pc' = [pc EXCEPT ![r] = "rejected"]
                /\ response' = [response EXCEPT ![r] =
                       [status |-> 400,
                        detail |-> << "Unknown question id: ", one.id >>]]
                /\ UNCHANGED << idx, factor_scores >>
           ELSE /\ factor_scores' = [factor_scores EXCEPT ![frame(r)] = one.fs]
                /\ idx' = [idx EXCEPT ![r] = @ + 1]
                /\ UNCHANGED << pc, response >>
    /\ UNCHANGED << payload, scores, cls, result, storeCalls, questions,
                    cin, cout >>

\* the loop is over: the two means are returned to submit_quiz
ScoreEnd(r) ==
    /\ pc[r] = "scoring"
    /\ idx[r] > Len(payload[r].answers)
    /\ pc' = [pc EXCEPT ![r] = "scored"]
    /\ scores' = [scores EXCEPT ![r] =
           [anxiety |-> mean(factor_scores[frame(r)].anxiety),
            avoidance |-> mean(factor_scores[frame(r)].avoidance)]]
    /\ UNCHANGED << payload, idx, factor_scores, cls, result, response,
                    storeCalls, questions, cin, cout >>

\* QuizResult(...): the record holds the fields it is given, unchanged
QuizResult(answers, anxiety_score, avoidance_score, style, prevalence, recommendations, meta) ==
    [answers |-> answers,
     anxiety_score |-> anxiety_score,
     avoidance_score |-> avoidance_score,
     style |-> style,
     prevalence |-> prevalence,
     recommendations |-> recommendations,
     meta |-> meta]

\* classify_style is called and the QuizResult is built
Classify(r) ==
    /\ pc[r] = "scored"
    /\ pc' = [pc EXCEPT ![r] = "classified"]
    /\ LET c == classify_style(scores[r].anxiety, scores[r].avoidance)
       IN  /\ cls' = [cls EXCEPT ![r] = c]
           /\ result' = [result EXCEPT ![r] =
                  QuizResult(payload[r].answers,
                             scores[r].anxiety,
                             scores[r].avoidance,
                             c.style,
                             c.prevalence,
                             c.recs,
                             IF payload[r].meta = {} THEN {}
                             ELSE payload[r].meta)]
    /\ UNCHANGED << payload, idx, factor_scores, scores, response,
                    storeCalls, questions, cin, cout >>

\* the outcomes of create_document: it returns, or it raises
StoreOutcomes == {"ok", "raise"}

\* a store step that lets the exception of create_document end the request
Persist_propagate(r) ==
    /\ pc[r] = "classified"
    /\ \E o \in StoreOutcomes :
         /\ storeCalls' = [storeCalls EXCEPT ![r] = Append(@,
                [collection |-> "quizresult", record |-> result[r],
                 outcome |-> o])]
         /\ IF o = "raise"
            THEN /\ pc' = [pc EXCEPT ![r] = "failed"]
                 /\ response' = [response EXCEPT ![r] = [status |-> 500]]
            ELSE /\ pc' = [pc EXCEPT ![r] = "persisted"]
                 /\ UNCHANGED response
    /\ UNCHANGED << payload, idx, factor_scores, scores, cls, result,
                    questions, cin, cout >>

\* a store step that calls create_document again when it raised
Persist_retry(r) ==
    /\ pc[r] = "classified"
    /\ \E o \in StoreOutcomes :
         /\ storeCalls' = [storeCalls EXCEPT ![r] =
                LET call == [collection |-> "quizresult",
                             record |-> result[r], outcome |-> o]
                IN  IF o = "raise" THEN Append(Append(@, call), call)
                    ELSE Append(@, call)]
         /\ pc' = [pc EXCEPT ![r] = "persisted"]
    /\ UNCHANGED << payload, idx, factor_scores, scores, cls, result,
                    response, questions, cin, cout >>

\* try: create_document("quizresult", result) / except Exception: pass
Persist(r) ==
    /\ pc[r] = "classified"
    /\ \E o \in StoreOutcomes :
         /\ storeCalls' = [storeCalls EXCEPT ![r] = Append(@,
                [collection |-> "quizresult", record |-> result[r],
                 outcome |-> o])]
         /\ pc' = [pc EXCEPT ![r] = "persisted"]
    /\ UNCHANGED << payload, idx, factor_scores, scores, cls, result,
                    response, questions, cin, cout >>

\* the text of the response's "explanation"
Explanation ==
    "Scores are computed on two dimensions (anxiety and avoidance) derived from the validated ECR-R measure."

\* return {...}: the response with the means rounded to two decimals
Respond(r) ==
    /\ pc[r] = "persisted"
    /\ pc' = [pc EXCEPT ![r] = "done"]
    /\ response' = [response EXCEPT ![r] =
           [status |-> 200,
            style |-> cls[r].style,
            anxiety_score |-> round2(scores[r].anxiety),
            avoidance_score |-> round2(scores[r].avoidance),
            prevalence |-> cls[r].prevalence,
            recommendations |-> cls[r].recs,
            explanation |-> Explanation]]
    /\ UNCHANGED << payload, idx, factor_scores, scores, cls, result,
                    storeCalls, questions, cin, cout >>

\* ------------------------------------------------------- specifications
\* one request at a time
Next ==
    \/ Receive("r1", SeqPayloads)
    \/ ScoreBegin("r1")
    \/ ScoreStep("r1")
    \/ ScoreEnd("r1")
    \/ Classify("r1")
    \/ Persist("r1")
    \/ Respond("r1")

Spec == Init /\ [][Next]_vars

\* the steps of submit_quiz for request r once it has been received
Handle(r) ==
    \/ ScoreBegin(r)
    \/ ScoreStep(r)
    \/ ScoreEnd(r)
    \/ Classify(r)
    \/ Persist(r)
    \/ Respond(r)

NextFair ==
    \/ Receive("r1", FairPayloads)
    \/ Handle("r1")

\* the worker thread running a handler keeps running it: a received
\* request is not left waiting forever at a step it can take
FairSpec == Init /\ [][NextFair]_vars /\ WF_vars(Handle("r1"))

\* two requests served by two worker threads, interleaved at every step
NextConcurrent ==
    \E r \in Reqs :
        \/ Receive(r, ConcPayloads)
        \/ ScoreBegin(r)
        \/ ScoreStep(r)
        \/ ScoreEnd(r)
        \/ Classify(r)
        \/ Persist(r)
        \/ Respond(r)

SpecConcurrent == Init /\ [][NextConcurrent]_vars

\* classify_style applied to arguments drawn from ClassifyInputs
InitClassify ==
    /\ Idle
    /\ cin \in [anxiety : ClassifyInputs, avoidance : ClassifyInputs]
    /\ cout = None

ClassifyCall ==
    /\ cout = None
    /\ cout' = classify_style(cin.anxiety, cin.avoidance)
    /\ UNCHANGED << reqvars, cin >>

NextClassify == ClassifyCall

SpecClassify == InitClassify /\ [][NextClassify]_vars

\* ------------------------------------------------ vocabulary of the claims
BankIds == { QUESTIONS[k].id : k \in 1..Len(QUESTIONS) }

FactorOf(id) == QUESTIONS[CHOOSE k \in 1..Len(QUESTIONS) : QUESTIONS[k].id = id].factor

UnknownIdx(answers) ==
    { k \in 1..Len(answers) : answers[k].question_id \notin BankIds }

AllKnown(answers) == UnknownIdx(answers) = {}

FirstUnknown(answers) ==
    CHOOSE k \in UnknownIdx(answers) : \A j \in UnknownIdx(answers) : k <= j

\* the positions of the answers whose question has factor f
FactorIdx(answers, f) ==
    { k \in 1..Len(answers) : answers[k].question_id \in BankIds
                              /\ FactorOf(answers[k].question_id) = f }

RECURSIVE SumOver(_, _)
SumOver(answers, S) ==
    IF S = {} THEN Rat(0, 1)
    ELSE LET k == CHOOSE j \in S : TRUE
         IN  RatAdd(answers[k].score, SumOver(answers, S \ {k}))

\* m is the arithmetic mean of the scores of factor f, or 0 if there is none
IsMeanOf(m, answers, f) ==
    LET S == FactorIdx(answers, f)
        total == SumOver(answers, S)
    IN  IF S = {} THEN m = Rat(0, 1)
        ELSE m.num * Cardinality(S) * total.den = total.num * m.den

\* the decision table of the four styles, keyed by (anxiety < T, avoidance < T)
Low(x) == x.num < 4 * x.den

TableStyle(a, v) ==
    CASE Low(a) /\ Low(v)   -> "Secure"
      [] Low(a) /\ ~Low(v)  -> "Avoidant (Dismissive)"
      [] ~Low(a) /\ Low(v)  -> "Anxious (Preoccupied)"
      [] ~Low(a) /\ ~Low(v) -> "Fearful-Avoidant (Disorganized)"

\* y is a number of two decimals nearest to x
IsRounded2(y, x) ==
    LET d == x.num * y.den - y.num * x.den
        ad == IF d < 0 THEN 0 - d ELSE d
    IN  /\ 100 % y.den = 0
        /\ 200 * ad <= x.den * y.den

Scored(r) == pc[r] \in {"scored", "classified", "persisted", "done"}

Submitted(r) == pc[r] # "idle"

IntScores(answers) == \A k \in 1..Len(answers) : answers[k].score.den = 1

OffScale(x) == RatLess(x, Rat(1, 1)) \/ RatLess(Rat(7, 1), x)

Ans(id, n) == [question_id |-> id, score |-> Rat(n, 1)]

\* the response a submission gets when it is the only request
RunAlone(p) ==
    LET s == compute_scores(p.answers, QUESTIONS)
        c == classify_style(s.anxiety, s.avoidance)
    IN  IF s.raised
        THEN [status |-> 400, detail |-> << "Unknown question id: ", s.id >>]
        ELSE [status |-> 200, style |-> c.style,
              anxiety_score |-> round2(s.anxiety),
              avoidance_score |-> round2(s.avoidance),
              prevalence |-> c.prevalence, recommendations |-> c.recs,
              explanation |-> Explanation]

\* ---------------------------------------------------------------- claims

\* C1: classify_style returns the style of the decision table with
\* threshold 4.0 (low means strictly below 4.0 on that axis), and
\* (4.0, 4.0) is Fearful-Avoidant (Disorganized).
C1_DecisionTable ==
    cout # None =>
        /\ cout.style = TableStyle(cin.anxiety, cin.avoidance)
        /\ (cin.anxiety = Rat(4, 1) /\ cin.avoidance = Rat(4, 1)
                => cout.style = "Fearful-Avoidant (Disorganized)")

C1_Witness ==
    /\ cout # None
    /\ cin = [anxiety |-> Rat(4, 1), avoidance |-> Rat(4, 1)]
    /\ cout.style = "Fearful-Avoidant (Disorganized)"

\* C5 as stated: anxiety 3.999 with avoidance 4.0 is classified
\* Anxious (Preoccupied).
C5_Original ==
    (cout # None /\ cin = [anxiety |-> Rat(3999, 1000), avoidance |-> Rat(4, 1)])
        => cout.style = "Anxious (Preoccupied)"

\* C5 amended: anxiety 3.999 with avoidance 4.0 is classified
\* Avoidant (Dismissive), with the prevalence "~25%".
C5_Amended ==
    (cout # None /\ cin = [anxiety |-> Rat(3999, 1000), avoidance |-> Rat(4, 1)])
        => /\ cout.style = "Avoidant (Dismissive)"
           /\ cout.prevalence = "~25%"

C5_Witness ==
    /\ cout # None
    /\ cin = [anxiety |-> Rat(3999, 1000), avoidance |-> Rat(4, 1)]

\* C2: a submission with an unknown question id never gets past the
\* unknown answer: no means, no QuizResult, no store call, and the only
\* response it can get is the 400 naming the first unknown id.
C2_UnknownRejected ==
    \A r \in Reqs :
        (Submitted(r) /\ ~AllKnown(payload[r].answers)) =>
            /\ pc[r] \in {"received", "scoring", "rejected"}
            /\ (pc[r] = "scoring" => idx[r] <= FirstUnknown(payload[r].answers))
            /\ scores[r] = None /\ cls[r] = None /\ result[r] = None
            /\ storeCalls[r] = << >>
            /\ (pc[r] = "rejected" <=> response[r] # None)
            /\ (response[r] # None =>
                   response[r] = [status |-> 400, detail |->
                       << "Unknown question id: ",
                          payload[r].answers[FirstUnknown(payload[r].answers)].question_id >>])

C2_Witness ==
    /\ pc["r1"] = "rejected"
    /\ payload["r1"].answers = << Ans("X1", 7), Ans("Z9", 4), Ans("A1", 4) >>
    /\ response["r1"].status = 400
    /\ storeCalls["r1"] = << >>

\* C4: for known ids each mean is the sum of the factor's scores divided by
\* their number, every answer counted, and 0 for a factor without answers;
\* no error is raised.
C4_Means ==
    \A r \in Reqs :
        (Submitted(r) /\ AllKnown(payload[r].answers)) =>
            /\ pc[r] # "rejected"
            /\ (Scored(r) =>
                   /\ IsMeanOf(scores[r].anxiety, payload[r].answers, "anxiety")
                   /\ IsMeanOf(scores[r].avoidance, payload[r].answers, "avoidance"))

C4_Witness ==
    /\ pc["r1"] = "scored"
    /\ payload["r1"].answers = << Ans("X1", 7), Ans("X1", 7), Ans("X1", 0) >>
    /\ scores["r1"] = [anxiety |-> Rat(14, 3), avoidance |-> Rat(0, 1)]

\* C6: the response carries the means rounded to two decimals (14/3 gives
\* 4.67), the QuizResult carries the means themselves, and the style is
\* the one of the unrounded means.
C6_Rounding ==
    \A r \in Reqs :
        pc[r] = "done" =>
            /\ IsMeanOf(result[r].anxiety_score, payload[r].answers, "anxiety")
            /\ IsMeanOf(result[r].avoidance_score, payload[r].answers, "avoidance")
            /\ IsRounded2(response[r].anxiety_score, result[r].anxiety_score)
            /\ IsRounded2(response[r].avoidance_score, result[r].avoidance_score)
            /\ (result[r].anxiety_score = Rat(14, 3)
                    => response[r].anxiety_score = Rat(467, 100))
            /\ response[r].style =
                   TableStyle(result[r].anxiety_score, result[r].avoidance_score)
            /\ result[r].style = response[r].style

C6_Witness ==
    /\ pc["r1"] = "done"
    /\ result["r1"].anxiety_score = Rat(14, 3)
    /\ response["r1"].anxiety_score = Rat(467, 100)

\* C7: a submission of known ids with a score outside [1, 7] is not
\* rejected; the off-scale score enters the mean and the request gets the
\* 200 response.
C7_NoScoreValidation ==
    \A r \in Reqs :
        (Submitted(r) /\ AllKnown(payload[r].answers)
           /\ \E k \in 1..Len(payload[r].answers) :
                  OffScale(payload[r].answers[k].score)) =>
            /\ pc[r] # "rejected"
            /\ (response[r] # None => response[r].status = 200)
            /\ (pc[r] = "done" =>
                   /\ IsMeanOf(result[r].anxiety_score, payload[r].answers, "anxiety")
                   /\ IsMeanOf(result[r].avoidance_score, payload[r].answers, "avoidance"))

C7_Witness ==
    /\ pc["r1"] = "done"
    /\ payload["r1"].answers = << Ans("X1", 99), Ans("A1", 0) >>
    /\ response["r1"].status = 200
    /\ response["r1"].anxiety_score = Rat(99, 1)
    /\ response["r1"].avoidance_score = Rat(0, 1)

\* the answer lists that are a reordering of answers
Reorderings(answers) ==
    LET n == Len(answers)
        perms == { f \in [1..n -> 1..n] : \A i, j \in 1..n : f[i] = f[j] => i = j }
    IN  { [k \in 1..n |-> answers[f[k]]] : f \in perms }

\* C8: with known ids and integer scores, every reordering of the answer
\* list has the same two means and the same style.
C8_OrderIndependent ==
    \A r \in Reqs :
        (Scored(r) /\ AllKnown(payload[r].answers)
                   /\ IntScores(payload[r].answers)) =>
            \A other \in Reorderings(payload[r].answers) :
                LET s == compute_scores(other, questions)
                IN  /\ ~s.raised
                    /\ s.anxiety = scores[r].anxiety
                    /\ s.avoidance = scores[r].avoidance
                    /\ classify_style(s.anxiety, s.avoidance).style =
                       classify_style(scores[r].anxiety, scores[r].avoidance).style

C8_Witness ==
    /\ pc["r1"] = "scored"
    /\ payload["r1"].answers = << Ans("X1", 0), Ans("A1", 4), Ans("X1", 7) >>
    /\ scores["r1"] = [anxiety |-> Rat(7, 2), avoidance |-> Rat(4, 1)]

Finished(r) == pc[r] \in {"done", "rejected", "failed"}

\* C3: two requests with the same submission of known ids get the same
\* 200 response whatever create_document did for each of them, and a store
\* call is always followed by the normal return.
C3_StoreFailureInvisible ==
    /\ \A r \in Reqs :
           (Submitted(r) /\ storeCalls[r] # << >>) =>
               /\ pc[r] \in {"persisted", "done"}
               /\ (pc[r] = "done" => response[r].status = 200)
    /\ \A r, q \in Reqs :
           (Finished(r) /\ Finished(q) /\ payload[r] = payload[q]
              /\ AllKnown(payload[r].answers)) =>
               response[r] = response[q]

C3_Witness ==
    /\ pc["r1"] = "done" /\ pc["r2"] = "done"
    /\ payload["r1"] = payload["r2"]
    /\ payload["r1"].answers = << Ans("X1", 6), Ans("A1", 2) >>
    /\ storeCalls["r1"][1].outcome = "ok"
    /\ storeCalls["r2"][1].outcome = "raise"
    /\ response["r1"] = response["r2"]

\* C9: under every interleaving each request ends with the response (or
\* the rejection) it gets when it runs alone, and the question bank never
\* changes.
C9_Independent ==
    /\ questions = QUESTIONS
    /\ \A r \in Reqs :
           /\ (pc[r] \in {"done", "rejected"} => response[r] = RunAlone(payload[r]))
           /\ (Submitted(r) /\ ~AllKnown(payload[r].answers) => pc[r] # "done")
           /\ (Submitted(r) /\ AllKnown(payload[r].answers) => pc[r] # "rejected")

C9_Witness ==
    /\ pc["r1"] = "done"
    /\ payload["r1"].answers = << Ans("X1", 6), Ans("A1", 2) >>
    /\ response["r1"].style = "Anxious (Preoccupied)"
    /\ pc["r2"] = "scoring" /\ idx["r2"] = 2
    /\ payload["r2"].answers = << Ans("X1", 2), Ans("Z9", 6) >>
    /\ factor_scores["r2"].anxiety = << Rat(2, 1) >>

\* what holds of the store calls of a request at every moment
C10_StoreCalls ==
    \A r \in Reqs :
        /\ Len(storeCalls[r]) <= 1
        /\ (pc[r] \in {"persisted", "done"} <=> Len(storeCalls[r]) = 1)
        /\ storeCalls[r] # << >> =>
               LET call == storeCalls[r][1]
               IN  /\ AllKnown(payload[r].answers)
                   /\ call.collection = "quizresult"
                   /\ call.record = result[r]
                   /\ call.record.answers = payload[r].answers
                   /\ IsMeanOf(call.record.anxiety_score, payload[r].answers, "anxiety")
                   /\ IsMeanOf(call.record.avoidance_score, payload[r].answers, "avoidance")
                   /\ call.record.style =
                          TableStyle(call.record.anxiety_score,
                                     call.record.avoidance_score)
                   /\ response[r] # None =>
                          /\ pc[r] = "done"
                          /\ response[r].style = call.record.style
                          /\ response[r].prevalence = call.record.prevalence
                          /\ response[r].recommendations = call.record.recommendations

\* C10: a submission of known ids makes exactly one create_document call,
\* on "quizresult", after the scores and the style are computed and before
\* the response exists; the record has the submitted answers and the
\* response's style, prevalence and recommendations; and the response is
\* eventually returned whether the call returned or raised.
C10_OneStoreCall ==
    /\ [] C10_StoreCalls
    /\ (pc["r1"] = "received" /\ AllKnown(payload["r1"].answers))
           ~> (pc["r1"] = "done" /\ Len(storeCalls["r1"]) = 1)
    /\ \A o \in StoreOutcomes :
           (pc["r1"] = "persisted" /\ storeCalls["r1"][1].outcome = o)
               ~> (pc["r1"] = "done" /\ response["r1"].status = 200
                      /\ storeCalls["r1"][1].outcome = o)

C10_Witness ==
    /\ pc["r1"] = "done"
    /\ Len(storeCalls["r1"]) = 1
    /\ storeCalls["r1"][1].outcome = "raise"
    /\ storeCalls["r1"][1].record.answers = << Ans("X1", 7), Ans("A1", 4) >>
    /\ response["r1"].style = storeCalls["r1"][1].record.style

====
